---- MODULE Spec2Model ----
(***************************************************************************)
(* Session execution controller of the klish shell                         *)
(* (clish/shell/shell_spawn.c): the read-execute loop _loop, its thread    *)
(* wrapper clish_shell_thread, and the entry points clish_shell_loop,      *)
(* clish_shell_spawn, clish_shell_wait, clish_shell_spawn_and_wait and     *)
(* _from_file.  The input stack (clish_shell_push_file /                   *)
(* clish_shell_pop_file), the line reader (clish_shell_readline) and the   *)
(* tinyrl stream accessors live in other files of the repository; they are *)
(* modelled from their description in the design document.                 *)
(*                                                                         *)
(* A FILE object is an index into `files`, a descriptor an index into      *)
(* `fds`.  fclose on a FILE closes the descriptor underneath it, so two    *)
(* FILE objects over one descriptor release the same resource.             *)
(***************************************************************************)
EXTENDS Integers, Sequences, FiniteSets, TLC

\* ---- bounds of the model ------------------------------------------------
MaxLines == 2        \* lines a source yields before its end of stream
MaxIncludes == 2     \* sources pushed by dispatched lines in one activation
MaxPathLen == 3      \* characters in the value of CLISH_PATH
MaxEntries == 1      \* entries readdir yields for one directory
MaxCalls == 2        \* further entry-point calls on a session that is closing

\* ---- values of the program ------------------------------------------------
BOOL_FALSE == 0
BOOL_TRUE == 1
NULL == 0
PTHREAD_CANCELED == -1   \* exit value of a cancelled thread, a non-NULL pointer
EAGAIN == 11             \* pthread_create: insufficient resources

States == {"READY", "SCRIPT_ERROR", "CLOSING"}
Ctx == {"caller", "worker"}
LoopPcs == {"entry", "tc1", "top", "read", "dispatch", "unwind", "tc2", "ret"}

VARIABLES
    state,      \* this->state
    stack,      \* this->current_file: sequence of [file, owns], top = last
    istream,    \* tinyrl's current input stream (a FILE)
    files,      \* FILE objects: [fd, closes (number of fclose calls)]
    fds,        \* descriptors: [tty, left (lines before EOF), closes]
    pc,         \* position of each execution context inside _loop
    running,    \* _loop's local `running`, per context
    api,        \* the entry point the caller is in
    cpc,        \* the caller's position in that entry point
    ret,        \* value returned to the caller by the entry point
    thr,        \* the worker thread: "none", "running", "exited", "cancelled"
    result,     \* exit value of the worker thread
    created,    \* pthread_create succeeded
    joined,     \* pthread_join was called
    cancelReq,  \* pthread_cancel was called on the worker
    ffile,      \* FILE opened by _from_file (0 when none)
    includes,   \* sources pushed by dispatched lines so far
    hist,       \* observations of the run, read only by the properties
    ld          \* clish_shell_load_files: its inputs, locals and effects

sessvars == <<state, stack, istream, files, fds, pc, running, api, cpc, ret,
              thr, result, created, joined, cancelReq, ffile, includes, hist>>
vars == <<state, stack, istream, files, fds, pc, running, api, cpc, ret, thr,
          result, created, joined, cancelReq, ffile, includes, hist, ld>>

\* ---- helpers --------------------------------------------------------------
Top(s) == s[Len(s)]
Pop(s) == SubSeq(s, 1, Len(s) - 1)
FdOf(f) == files[f].fd
\* tinyrl__get_isatty: whether the current input stream is a terminal
get_isatty == fds[FdOf(istream)].tty
SourceTty(e) == fds[FdOf(e.file)].tty

\* fclose(f): the FILE is closed and so is the descriptor under it
FilesAfterFclose(f) == [files EXCEPT ![f].closes = @ + 1]
FdsAfterFclose(f) == [fds EXCEPT ![FdOf(f)].closes = @ + 1]


\* ---- the input stack (push_file / pop_file) -------------------------------
\* clish_shell_push_file(this, file, owns): the new source becomes the top
\* of the stack and tinyrl's input stream
push_stack(f, owns) == Append(stack, [file |-> f, owns |-> owns])

\* clish_shell_pop_file: its boolean result, FALSE when the stack is empty
\* once the top is removed (or was empty already)
pop_result == IF Len(stack) > 1 THEN TRUE ELSE FALSE
pop_stack == IF stack = <<>> THEN stack ELSE Pop(stack)
\* the top's resource is closed iff the entry owns it
pop_closes == stack # <<>> /\ Top(stack).owns
pop_files == IF pop_closes THEN FilesAfterFclose(Top(stack).file) ELSE files
pop_fds == IF pop_closes THEN FdsAfterFclose(Top(stack).file) ELSE fds
\* the entry underneath becomes the active source again
pop_istream == IF Len(stack) > 1 THEN stack[Len(stack) - 1].file ELSE istream

\* ---- conditions and values of _loop and its callers -----------------------
\* line 120: the shell isn't closing down
LoopAlways(st) == TRUE
loop_enabled(st) == st # "CLOSING"
\* lines 130-131: an interactive session recovers from a script error
RecoverNever(st, tty) == FALSE
RecoverAlways(st, tty) == st = "SCRIPT_ERROR"
recover(st, tty) == st = "SCRIPT_ERROR" /\ tty = TRUE
\* line 136: only read the next line if there hasn't been a script error
ReadAlways(st) == TRUE
read_allowed(st) == st # "SCRIPT_ERROR"
\* lines 140-141: end of a file, or a script error: unwind the file stack
UnwindOnErrorOnly(run, st) == st = "SCRIPT_ERROR"
UnwindAlways(run, st) == TRUE
unwind_needed(run, st) == run = FALSE \/ st = "SCRIPT_ERROR"
\* line 146: running = clish_shell_pop_file(this)
RunningIgnoresPop(res) == TRUE
running_after_pop(res) == res
\* line 154: the value _loop returns
loop_return == BOOL_TRUE
\* line 196: the value the thread function returns
ThreadReturnsNull == NULL
thread_return == BOOL_TRUE
\* line 219: clish_shell_wait turns the thread's exit value into a boolean
wait_return(res) == IF res # NULL THEN BOOL_TRUE ELSE BOOL_FALSE
\* line 226: the test clish_shell_spawn_and_wait makes on clish_shell_spawn
spawn_failed(rc) == rc < 0
\* lines 126, 150 and 186: with deferred cancellation the thread can be
\* cancelled at the two pthread_testcancel calls of _loop
CancellableAnywhere == LoopPcs
Cancellable == {"tc1", "tc2"}
\* lines 161-174: the cancellation handler releases nothing
clish_shell_thread_cleanup == UNCHANGED <<state, stack, istream, files, fds>>

\* ---- observations ---------------------------------------------------------
NoFail == [active |-> FALSE, tty |-> FALSE, pops |-> 0, expect |-> 0]
NoPop == [valid |-> FALSE, res |-> FALSE, below |-> 0]
\* sources a script error raised on top of s unwinds: the top and every
\* non-interactive source directly under it
RECURSIVE ScriptedRun(_)
ScriptedRun(s) ==
    IF s = <<>> \/ SourceTty(Top(s)) THEN 0 ELSE 1 + ScriptedRun(Pop(s))
ExpectedPops(s) == 1 + ScriptedRun(Pop(s))

\* clish_shell_load_files not called: CLISH_PATH unset, nothing scanned
LdIdle == [env |-> [set |-> FALSE, val |-> <<>>], home |-> <<>>,
           lpc |-> "start", buffer |-> <<>>, rest |-> <<>>, dirname |-> <<>>,
           nread |-> 0, visited |-> <<>>, seen |-> <<>>, loaded |-> <<>>]

\* the session after construction, its input stream a terminal or not (t)
\* and holding n lines
SessionInit(t, n) ==
    /\ state = "READY"
    /\ stack = <<>>
    /\ istream = 1
    /\ files = <<[fd |-> 1, closes |-> 0]>>
    /\ fds = <<[tty |-> t, left |-> n, closes |-> 0]>>
    /\ pc = [c \in Ctx |-> "idle"]
    /\ running = [c \in Ctx |-> FALSE]
    /\ api = "none"
    /\ cpc = "idle"
    /\ ret = 0
    /\ thr = "none"
    /\ result = NULL
    /\ created = FALSE
    /\ joined = FALSE
    /\ cancelReq = FALSE
    /\ ffile = 0
    /\ includes = 0
    /\ hist = [fail |-> NoFail, lastPop |-> NoPop, cancelAt |-> "none",
               reqAt |-> "none",
               createFailed |-> FALSE, entered |-> FALSE,
               calls |-> 0, overlap |-> FALSE]

Init ==
    /\ ld = LdIdle
    /\ \E t \in BOOLEAN, n \in 0..MaxLines : SessionInit(t, n)

\* ---- _loop ----------------------------------------------------------------
\* lines 120-123: unless the shell is closing, push the default input stream
loop_entry(c) ==
    /\ UNCHANGED ld
    /\ pc[c] = "entry"
    /\ running' = [running EXCEPT ![c] = TRUE]
    /\ IF loop_enabled(state)
       THEN LET f == Len(files) + 1 IN
            /\ files' = Append(files, [fd |-> FdOf(istream), closes |-> 0])
            /\ stack' = push_stack(f, TRUE)
            /\ istream' = f
            /\ pc' = [pc EXCEPT ![c] = "tc1"]
            /\ hist' = [hist EXCEPT !.entered = TRUE]
       ELSE /\ pc' = [pc EXCEPT ![c] = "ret"]
            /\ UNCHANGED <<files, stack, istream, hist>>
    /\ UNCHANGED <<state, fds, api, cpc, ret, thr, result, created, joined,
                   cancelReq, ffile, includes>>

\* lines 125-126 and 149-150: pthread_testcancel with no cancellation pending
\* (or not in a thread) returns
loop_testcancel(c) ==
    /\ UNCHANGED ld
    /\ pc[c] \in {"tc1", "tc2"}
    /\ ~(c = "worker" /\ cancelReq)
    /\ pc' = [pc EXCEPT ![c] = "top"]
    /\ UNCHANGED <<state, stack, istream, files, fds, running, api, cpc, ret,
                   thr, result, created, joined, cancelReq, ffile, includes,
                   hist>>

\* lines 129-136: the loop test, the interactive recovery, the decision to read
loop_top(c) ==
    /\ UNCHANGED ld
    /\ pc[c] = "top"
    /\ IF running[c]
       THEN /\ state' = IF recover(state, get_isatty) THEN "READY" ELSE state
            /\ pc' = [pc EXCEPT ![c] =
                        IF read_allowed(state') THEN "read" ELSE "unwind"]
       ELSE /\ state' = state
            /\ pc' = [pc EXCEPT ![c] = "ret"]
    /\ UNCHANGED <<stack, istream, files, fds, running, api, cpc, ret, thr,
                   result, created, joined, cancelReq, ffile, includes, hist>>

\* line 138, clish_shell_readline, first half: one line is taken from the
\* active source, or the source is at its end
readline_read(c) ==
    /\ UNCHANGED ld
    /\ pc[c] = "read"
    /\ LET d == FdOf(istream) IN
       IF fds[d].left = 0
       THEN /\ running' = [running EXCEPT ![c] = FALSE]
            /\ pc' = [pc EXCEPT ![c] = "unwind"]
            /\ fds' = fds
            /\ hist' = [hist EXCEPT !.fail = NoFail, !.lastPop = NoPop]
       ELSE /\ running' = running
            /\ pc' = [pc EXCEPT ![c] = "dispatch"]
            /\ fds' = [fds EXCEPT ![d].left = @ - 1]
            /\ hist' = [hist EXCEPT !.fail = NoFail, !.lastPop = NoPop]
    /\ UNCHANGED <<state, stack, istream, files, api, cpc, ret, thr, result,
                   created, joined, cancelReq, ffile, includes>>

\* clish_shell_readline, second half: the line is dispatched; it succeeds,
\* fails, or includes a script (a file the engine opens and owns)
readline_dispatch(c) ==
    /\ UNCHANGED ld
    /\ pc[c] = "dispatch"
    /\ running' = [running EXCEPT ![c] = TRUE]
    /\ pc' = [pc EXCEPT ![c] = "unwind"]
    /\ \/ UNCHANGED <<state, stack, istream, files, fds, includes, hist>>
       \/ /\ state' = "SCRIPT_ERROR"
          /\ UNCHANGED <<stack, istream, files, fds, includes>>
          /\ hist' = [hist EXCEPT
                        !.fail = [active |-> TRUE, tty |-> get_isatty,
                                  pops |-> 0, expect |-> ExpectedPops(stack)]]
       \/ /\ includes < MaxIncludes
          /\ \E t \in BOOLEAN, n \in 0..MaxLines :
               LET f == Len(files) + 1 IN
               /\ fds' = Append(fds, [tty |-> t, left |-> n, closes |-> 0])
               /\ files' = Append(files, [fd |-> Len(fds) + 1, closes |-> 0])
               /\ stack' = push_stack(f, TRUE)
               /\ istream' = f
          /\ includes' = includes + 1
          /\ UNCHANGED <<state, hist>>
    /\ UNCHANGED <<api, cpc, ret, thr, result, created, joined, cancelReq,
                   ffile>>

\* lines 140-147: at the end of a file or on a script error, pop the stack
loop_unwind(c) ==
    /\ UNCHANGED ld
    /\ pc[c] = "unwind"
    /\ pc' = [pc EXCEPT ![c] = "tc2"]
    /\ IF unwind_needed(running[c], state)
       THEN /\ stack' = pop_stack
            /\ files' = pop_files
            /\ fds' = pop_fds
            /\ istream' = pop_istream
            /\ running' = [running EXCEPT ![c] = running_after_pop(pop_result)]
            /\ hist' = [hist EXCEPT
                          !.fail.pops = IF hist.fail.active THEN @ + 1 ELSE @,
                          !.lastPop = [valid |-> TRUE, res |-> pop_result,
                                       below |-> IF Len(stack) > 1
                                                 THEN stack[Len(stack) - 1].file
                                                 ELSE 0]]
       ELSE UNCHANGED <<stack, files, fds, istream, running, hist>>
    /\ UNCHANGED <<state, api, cpc, ret, thr, result, created, joined,
                   cancelReq, ffile, includes>>

\* ---- the worker thread ------------------------------------------------------
\* lines 182-191: clish_shell_thread sets deferred cancellation, registers the
\* cleanup handler and enters _loop
clish_shell_thread_begin ==
    /\ UNCHANGED ld
    /\ pc["worker"] = "start"
    /\ pc' = [pc EXCEPT !["worker"] = "entry"]
    /\ UNCHANGED <<state, stack, istream, files, fds, running, api, cpc, ret,
                   thr, result, created, joined, cancelReq, ffile, includes,
                   hist>>

\* lines 193-196: _loop returned; the cleanup handler runs and the thread
\* ends with its return value
clish_shell_thread_end ==
    /\ UNCHANGED ld
    /\ pc["worker"] = "ret"
    /\ clish_shell_thread_cleanup
    /\ pc' = [pc EXCEPT !["worker"] = "idle"]
    /\ thr' = "exited"
    /\ result' = thread_return
    /\ UNCHANGED <<running, api, cpc, ret, created, joined, cancelReq, ffile,
                   includes, hist>>

\* a pending cancellation acts at a cancellation point: the cleanup handler
\* runs and the thread ends with PTHREAD_CANCELED
thread_cancelled ==
    /\ UNCHANGED ld
    /\ thr = "running"
    /\ cancelReq
    /\ pc["worker"] \in Cancellable
    /\ clish_shell_thread_cleanup
    /\ pc' = [pc EXCEPT !["worker"] = "idle"]
    /\ thr' = "cancelled"
    /\ result' = PTHREAD_CANCELED
    /\ hist' = [hist EXCEPT !.cancelAt = pc["worker"]]
    /\ UNCHANGED <<running, api, cpc, ret, created, joined, cancelReq, ffile,
                   includes>>

\* the owner of the thread handle requests cancellation (pthread_cancel)
request_cancel ==
    /\ UNCHANGED ld
    /\ thr = "running"
    /\ ~cancelReq
    /\ cancelReq' = TRUE
    /\ hist' = [hist EXCEPT !.reqAt = pc["worker"]]
    /\ UNCHANGED <<state, stack, istream, files, fds, pc, running, api, cpc,
                   ret, thr, result, created, joined, ffile, includes>>

\* shutdown is requested on a session that is not running
request_shutdown ==
    /\ UNCHANGED ld
    /\ api = "none"
    /\ state = "READY"
    /\ state' = "CLOSING"
    /\ UNCHANGED <<stack, istream, files, fds, pc, running, api, cpc, ret, thr,
                   result, created, joined, cancelReq, ffile, includes, hist>>

\* ---- entry points ---------------------------------------------------------
\* lines 206-207: pthread_create returns 0 and starts the thread, or an
\* error number
pthread_create_rc(ok) == IF ok THEN 0 ELSE EAGAIN

\* lines 276-279: clish_shell_loop runs _loop in the caller
clish_shell_loop ==
    /\ UNCHANGED ld
    /\ api = "none"
    /\ api' = "loop"
    /\ cpc' = "in_loop"
    /\ pc' = [pc EXCEPT !["caller"] = "entry"]
    /\ UNCHANGED <<state, stack, istream, files, fds, running, ret, thr,
                   result, created, joined, cancelReq, ffile, includes, hist>>

\* _loop returned to clish_shell_loop (line 278) or to _from_file (line 253)
loop_returns ==
    /\ UNCHANGED ld
    /\ cpc = "in_loop"
    /\ pc["caller"] = "ret"
    /\ pc' = [pc EXCEPT !["caller"] = "idle"]
    /\ ret' = loop_return
    /\ cpc' = IF api = "from_file" THEN "fclose" ELSE "done"
    /\ UNCHANGED <<state, stack, istream, files, fds, running, api, thr,
                   result, created, joined, cancelReq, ffile, includes, hist>>

\* lines 200-208: clish_shell_spawn
clish_shell_spawn(this, ok) ==
    /\ UNCHANGED ld
    /\ api = "none"
    /\ api' = "spawn"
    /\ IF this = "NULL"
       THEN /\ ret' = -1
            /\ cpc' = "done"
            /\ UNCHANGED <<pc, thr, created, hist>>
       ELSE /\ ret' = pthread_create_rc(ok)
            /\ created' = ok
            /\ thr' = IF ok THEN "running" ELSE thr
            /\ pc' = [pc EXCEPT !["worker"] = IF ok THEN "start" ELSE @]
            /\ cpc' = IF ok THEN "spawned" ELSE "done"
            /\ hist' = [hist EXCEPT !.createFailed = ~ok]
    /\ UNCHANGED <<state, stack, istream, files, fds, running, result, joined,
                   cancelReq, ffile, includes>>

\* lines 211-217: clish_shell_wait on the handle clish_shell_spawn filled in
clish_shell_wait ==
    /\ UNCHANGED ld
    /\ api = "spawn"
    /\ cpc = "spawned"
    /\ api' = "wait"
    /\ cpc' = "in_join"
    /\ joined' = TRUE
    /\ UNCHANGED <<state, stack, istream, files, fds, pc, running, ret, thr,
                   result, created, cancelReq, ffile, includes, hist>>

\* lines 223-229: clish_shell_spawn_and_wait, up to the join
spawn_and_wait_enter(this, ok, callerpc) ==
    LET rc == IF this = "NULL" THEN -1 ELSE pthread_create_rc(ok)
        started == this # "NULL" /\ ok
    IN  /\ created' = started
        /\ thr' = IF started THEN "running" ELSE thr
        /\ pc' = [pc EXCEPT !["worker"] = IF started THEN "start" ELSE @,
                            !["caller"] = callerpc]
        /\ hist' = [hist EXCEPT !.createFailed = (this # "NULL" /\ ~ok)]
        /\ IF spawn_failed(rc)
           THEN /\ ret' = -1
                /\ cpc' = IF api' = "spawn_from_file" THEN "fclose" ELSE "done"
                /\ joined' = joined
           ELSE /\ ret' = ret
                /\ cpc' = "in_join"
                /\ joined' = TRUE

clish_shell_spawn_and_wait(this, ok) ==
    /\ UNCHANGED ld
    /\ api = "none"
    /\ api' = "spawn_and_wait"
    /\ spawn_and_wait_enter(this, ok, pc["caller"])
    /\ UNCHANGED <<state, stack, istream, files, fds, running, result,
                   cancelReq, ffile, includes>>

\* lines 217-219 (and 249-250 for _from_file): pthread_join returns once the
\* thread has ended, and the exit value becomes the boolean result
join_returns ==
    /\ UNCHANGED ld
    /\ cpc = "in_join"
    /\ created
    /\ thr \in {"exited", "cancelled"}
    /\ ret' = wait_return(result)
    /\ cpc' = IF api = "spawn_from_file" THEN "fclose" ELSE "done"
    /\ UNCHANGED <<state, stack, istream, files, fds, pc, running, api, thr,
                   result, created, joined, cancelReq, ffile, includes, hist>>

\* line 217 on a handle pthread_create never filled in: the behaviour of
\* pthread_join is undefined; it may fail and leave `result` NULL, or
\* deliver any value
join_invalid ==
    /\ UNCHANGED ld
    /\ cpc = "in_join"
    /\ ~created
    /\ \E r \in {NULL, 1} :
          /\ result' = r
          /\ ret' = wait_return(r)
    /\ cpc' = IF api = "spawn_from_file" THEN "fclose" ELSE "done"
    /\ UNCHANGED <<state, stack, istream, files, fds, pc, running, api, thr,
                   created, joined, cancelReq, ffile, includes, hist>>

\* lines 243-246: tinyrl's input stream is switched to the file only once
\* fopen has succeeded
FromFileSwitchesAnyway(opens, f) == f
from_file_istream(opens, f) == IF opens THEN f ELSE istream
\* lines 247-254: the loop runs in the spawned thread, or else in the caller
CallerLoopsToo(is_thread) == TRUE
caller_loops(is_thread) == ~is_thread

\* lines 233-254: _from_file opens the file, makes it tinyrl's input stream
\* and runs the loop in a thread or in the caller
from_file(is_thread, opens, ok) ==
    /\ UNCHANGED ld
    /\ api = "none"
    /\ api' = IF is_thread THEN "spawn_from_file" ELSE "from_file"
    /\ istream' = from_file_istream(opens, Len(files) + 1)
    /\ IF ~opens
       THEN /\ ret' = BOOL_FALSE
            /\ cpc' = "done"
            /\ UNCHANGED <<files, fds, pc, thr, created, joined, ffile, hist>>
       ELSE /\ \E n \in 0..MaxLines :
                  fds' = Append(fds, [tty |-> FALSE, left |-> n, closes |-> 0])
            /\ files' = Append(files, [fd |-> Len(fds) + 1, closes |-> 0])
            /\ ffile' = Len(files) + 1
            /\ IF is_thread
               THEN spawn_and_wait_enter("session", ok,
                        IF caller_loops(is_thread) THEN "entry"
                        ELSE pc["caller"])
               ELSE /\ cpc' = "in_loop"
                    /\ pc' = [pc EXCEPT !["caller"] =
                                IF caller_loops(is_thread) THEN "entry" ELSE @]
                    /\ UNCHANGED <<ret, thr, created, joined, hist>>
    /\ UNCHANGED <<state, stack, running, result, cancelReq, includes>>

\* lines 255-257: _from_file closes the file and returns the result
from_file_close ==
    /\ UNCHANGED ld
    /\ cpc = "fclose"
    /\ files' = FilesAfterFclose(ffile)
    /\ fds' = FdsAfterFclose(ffile)
    /\ ret' = IF ret # 0 THEN BOOL_TRUE ELSE BOOL_FALSE
    /\ cpc' = "done"
    /\ UNCHANGED <<state, stack, istream, pc, running, api, thr, result,
                   created, joined, cancelReq, ffile, includes, hist>>

\* the caller, back from an entry point on a session that is closing down,
\* calls an entry point again
call_again ==
    /\ UNCHANGED ld
    /\ state = "CLOSING"
    /\ cpc = "done"
    /\ hist.calls < MaxCalls
    /\ api' = "none"
    /\ cpc' = "idle"
    /\ ret' = 0
    /\ thr' = "none"
    /\ result' = NULL
    /\ created' = FALSE
    /\ joined' = FALSE
    /\ cancelReq' = FALSE
    /\ ffile' = 0
    /\ hist' = [hist EXCEPT !.calls = @ + 1, !.reqAt = "none",
                            !.cancelAt = "none", !.createFailed = FALSE]
    /\ UNCHANGED <<state, stack, istream, files, fds, pc, running, includes>>

Next ==
    \/ \E c \in Ctx : loop_entry(c)
    \/ \E c \in Ctx : loop_testcancel(c)
    \/ \E c \in Ctx : loop_top(c)
    \/ \E c \in Ctx : readline_read(c)
    \/ \E c \in Ctx : readline_dispatch(c)
    \/ \E c \in Ctx : loop_unwind(c)
    \/ clish_shell_thread_begin
    \/ clish_shell_thread_end
    \/ thread_cancelled
    \/ request_cancel
    \/ request_shutdown
    \/ clish_shell_loop
    \/ loop_returns
    \/ \E this \in {"session", "NULL"}, ok \in BOOLEAN : clish_shell_spawn(this, ok)
    \/ clish_shell_wait
    \/ \E this \in {"session", "NULL"}, ok \in BOOLEAN :
          clish_shell_spawn_and_wait(this, ok)
    \/ join_returns
    \/ join_invalid
    \/ \E is_thread \in BOOLEAN, opens \in BOOLEAN, ok \in BOOLEAN :
          from_file(is_thread, opens, ok)
    \/ from_file_close
    \/ call_again

Spec == Init /\ [][Next]_vars


\* lines 276-279 called while the thread clish_shell_spawn started has not
\* been waited for: nothing in clish_shell_loop or _loop tests for a running
\* thread, so the caller enters _loop as well
clish_shell_loop_unjoined ==
    /\ UNCHANGED ld
    /\ api = "spawn"
    /\ cpc = "spawned"
    /\ api' = "loop"
    /\ cpc' = "in_loop"
    /\ pc' = [pc EXCEPT !["caller"] = "entry"]
    /\ hist' = [hist EXCEPT !.overlap = TRUE]
    /\ UNCHANGED <<state, stack, istream, files, fds, running, ret, thr,
                   result, created, joined, cancelReq, ffile, includes>>

\* the entry points called in any order, a thread waited for or not
NextAnyOrder == Next \/ clish_shell_loop_unjoined
SpecAnyOrder == Init /\ [][NextAnyOrder]_vars


\* a context inside _loop keeps executing: the blocking read returns a line
\* or the end of the stream, a started thread runs, and a pending
\* cancellation acts at the next pthread_testcancel
LoopStep(c) ==
    \/ loop_entry(c)
    \/ loop_testcancel(c)
    \/ loop_top(c)
    \/ readline_read(c)
    \/ readline_dispatch(c)
    \/ loop_unwind(c)
SpecFair ==
    /\ Spec
    /\ \A c \in Ctx : WF_vars(LoopStep(c))
    /\ WF_vars(clish_shell_thread_begin)
    /\ WF_vars(thread_cancelled)

TypeOK ==
    /\ state \in States
    /\ pc \in [Ctx -> LoopPcs \cup {"idle", "start"}]
    /\ running \in [Ctx -> BOOLEAN]
    /\ istream \in 1..Len(files)
    /\ \A i \in 1..Len(stack) : stack[i].file \in 1..Len(files)
    /\ \A f \in 1..Len(files) : files[f].fd \in 1..Len(fds)
    /\ ret \in {-1, 0, 1, EAGAIN}
    /\ thr \in {"none", "running", "exited", "cancelled"}

\* ---- clish_shell_tilde_expand and clish_shell_load_files ------------------
\* strings are sequences of one-character strings
\* line 19: default_path = "/etc/clish;~/.clish"
default_path == <<"/", "e", "t", "c", "/", "c", "l", "i", "s", "h", ";",
                  "~", "/", ".", "c", "l", "i", "s", "h">>
PathChars == {"a", "~", ";"}
Homes == {<<>>, <<"h">>}
XmlExt == <<".", "x", "m", "l">>
\* names readdir may yield
Names == {<<"a", ".", "x", "m", "l">>,
          <<"a", ".", "x", "m", "l", ".", "b">>,
          <<"a", ".", "X", "M", "L">>,
          <<"a">>,
          <<"a", ".", "b", ".", "x", "m", "l">>}

Min(a, b) == IF a < b THEN a ELSE b
\* lub_string_catn(&result, text, count): at most count characters of text
lub_string_catn(res, text, from, count) ==
    res \o SubSeq(text, from, Min(from + count - 1, Len(text)))

\* lines 32-46: the loop of clish_shell_tilde_expand over the characters of
\* path, with its locals p, segment (both positions in path), count, result
RECURSIVE tilde_loop(_, _, _, _, _, _)
tilde_loop(path, home_dir, p, segment, count, res) ==
    IF p > Len(path)
    THEN IF count # 0 THEN lub_string_catn(res, path, segment, count) ELSE res
    ELSE IF path[p] = "~"
         THEN IF count # 0
              THEN tilde_loop(path, home_dir, p + 1, segment + count + 1, 0,
                       lub_string_catn(res, path, segment, count) \o home_dir)
              ELSE tilde_loop(path, home_dir, p + 1, segment, count + 1,
                              res \o home_dir)
         ELSE tilde_loop(path, home_dir, p + 1, segment, count + 1, res)

\* lines 25-48
clish_shell_tilde_expand(path, home_dir) ==
    tilde_loop(path, home_dir, 1, 1, 0, <<>>)

\* strtok(.., ";"): skip the delimiters in front, the token is the text up to
\* the next delimiter, the scan resumes behind that delimiter
RECURSIVE strtok_skip(_)
strtok_skip(s) ==
    IF s # <<>> /\ Head(s) = ";" THEN strtok_skip(Tail(s)) ELSE s
RECURSIVE TokenLen(_)
TokenLen(s) == IF s = <<>> \/ Head(s) = ";" THEN 0 ELSE 1 + TokenLen(Tail(s))
strtok_token(s) == SubSeq(strtok_skip(s), 1, TokenLen(strtok_skip(s)))
strtok_rest(s) ==
    LET t == strtok_skip(s)
    IN  SubSeq(t, TokenLen(t) + 2, Len(t))

\* line 78: a directory that cannot be opened is skipped (continue)
StopOnOpenFailure(rest) == <<>>
after_open_failure(rest) == rest

\* lines 81-84: the text from the last '.' of the name on equals ".xml"
FirstDot(name) ==
    IF \E i \in 1..Len(name) : name[i] = "."
    THEN CHOOSE i \in 1..Len(name) :
            name[i] = "." /\ \A j \in 1..(i - 1) : name[j] # "."
    ELSE 0
strrchr_dot(name) ==
    IF \E i \in 1..Len(name) : name[i] = "."
    THEN CHOOSE i \in 1..Len(name) :
            name[i] = "." /\ \A j \in (i + 1)..Len(name) : name[j] # "."
    ELSE 0
XmlByFirstDot(name) ==
    FirstDot(name) # 0 /\ SubSeq(name, FirstDot(name), Len(name)) = XmlExt
xml_extension(name) ==
    strrchr_dot(name) # 0
    /\ SubSeq(name, strrchr_dot(name), Len(name)) = XmlExt
\* lines 88-91: the filename handed to clish_shell_xml_read
build_filename(dirname, name) == dirname \o <<"/">> \o name

\* lines 53-62: the path is CLISH_PATH or the default, tilde-expanded
load_files_begin ==
    /\ ld.lpc = "start"
    /\ LET path == IF ld.env.set THEN ld.env.val ELSE default_path
           buf == clish_shell_tilde_expand(path, ld.home)
       IN  ld' = [ld EXCEPT !.lpc = "scan", !.buffer = buf, !.rest = buf]
    /\ UNCHANGED sessvars

\* lines 65-79: the next directory of the path is taken and opened; the scan
\* is over when strtok finds no more
load_next_dir ==
    /\ ld.lpc = "scan"
    /\ LET t == strtok_token(ld.rest)
       IN  IF t = <<>>
           THEN ld' = [ld EXCEPT !.lpc = "done", !.rest = <<>>]
           ELSE \E opened \in BOOLEAN :
                  ld' = [ld EXCEPT
                           !.dirname = t,
                           !.nread = 0,
                           !.visited = Append(@, [dir |-> t, ok |-> opened]),
                           !.rest = IF opened THEN strtok_rest(ld.rest)
                                    ELSE after_open_failure(strtok_rest(ld.rest)),
                           !.lpc = IF opened THEN "dir" ELSE "scan"]
    /\ UNCHANGED sessvars

\* lines 80-101: readdir yields an entry; an entry with the extension is
\* handed to clish_shell_xml_read, whose result is ignored
load_entry ==
    /\ ld.lpc = "dir"
    /\ ld.nread < MaxEntries
    /\ \E name \in Names, r \in BOOLEAN :
          /\ xml_extension(name) \/ r
          /\ ld' = [ld EXCEPT
                      !.nread = @ + 1,
                      !.seen = Append(@, [dir |-> ld.dirname, name |-> name]),
                      !.loaded =
                          IF xml_extension(name)
                          THEN Append(@, [file |-> build_filename(ld.dirname, name),
                                          ok |-> r])
                          ELSE @]
    /\ UNCHANGED sessvars

\* lines 80 and 103: readdir yields nothing more; the directory is closed
load_end_dir ==
    /\ ld.lpc = "dir"
    /\ ld' = [ld EXCEPT !.lpc = "scan"]
    /\ UNCHANGED sessvars

NextLoad ==
    \/ load_files_begin
    \/ load_next_dir
    \/ load_entry
    \/ load_end_dir

\* the environment clish_shell_load_files runs in: CLISH_PATH unset or set to
\* a non-empty string, HOME empty or not
InitLoad ==
    /\ SessionInit(FALSE, 0)
    /\ pc = [c \in Ctx |-> "idle"]
    /\ running = [c \in Ctx |-> FALSE]
    /\ api = "none" /\ cpc = "idle" /\ ret = 0 /\ thr = "none"
    /\ result = NULL /\ created = FALSE /\ joined = FALSE
    /\ cancelReq = FALSE /\ ffile = 0 /\ includes = 0
    /\ hist = [fail |-> NoFail, lastPop |-> NoPop, cancelAt |-> "none",
               reqAt |-> "none",
               createFailed |-> FALSE, entered |-> FALSE,
               calls |-> 0, overlap |-> FALSE]
    /\ \E h \in Homes :
          \/ ld = [LdIdle EXCEPT !.home = h]
          \/ \E n \in 1..MaxPathLen : \E v \in [1..n -> PathChars] :
                ld = [LdIdle EXCEPT !.home = h,
                                    !.env = [set |-> TRUE, val |-> v]]

SpecLoad == InitLoad /\ [][NextLoad]_vars


\* ---- properties -----------------------------------------------------------
Returned == cpc = "done"

\* C1: in an interactive session a failed dispatch leaves the state
\* SCRIPT_ERROR, the state is READY again when the next line is read, and no
\* source is popped between the failure and that read.
C1_InteractiveFailureKeepsStack ==
    (hist.fail.active /\ hist.fail.tty) =>
        /\ hist.fail.pops = 0
        /\ \A c \in Ctx :
              /\ pc[c] = "unwind" => state = "SCRIPT_ERROR"
              /\ pc[c] = "read" => state = "READY"
              /\ pc[c] # "ret"

\* C2 as stated: in a scripted session a failed dispatch sets SCRIPT_ERROR
\* and pops exactly one source, at any stack depth.
C2_ScriptedFailurePopsOne ==
    (hist.fail.active /\ ~hist.fail.tty) =>
        /\ hist.fail.pops <= 1
        /\ \A c \in Ctx : pc[c] \in {"read", "ret"} => hist.fail.pops = 1

\* C2 amended: in a scripted session a failed dispatch sets SCRIPT_ERROR and
\* pops the failing source in the same iteration; while the state stays
\* SCRIPT_ERROR every iteration pops one more source without reading, so by
\* the next read or the return of the loop the failing source and every
\* non-interactive source directly under it have been popped, and no other.
C2_ScriptedFailureUnwinds ==
    (hist.fail.active /\ ~hist.fail.tty) =>
        /\ hist.fail.pops <= hist.fail.expect
        /\ \A c \in Ctx :
              /\ pc[c] = "unwind" => state = "SCRIPT_ERROR"
              /\ pc[c] \in {"tc2", "top", "read", "ret"} => hist.fail.pops >= 1
              /\ pc[c] \in {"read", "ret"} => hist.fail.pops = hist.fail.expect

C2_Witness ==
    /\ hist.fail.active /\ ~hist.fail.tty
    /\ hist.fail.expect = 2
    /\ hist.fail.pops = 2
    /\ \E c \in Ctx : pc[c] = "read"

\* C3: once clish_shell_wait has returned for a cancelled worker, every
\* owned source still on the stack has been closed.
C3_CancelledJoinLeavesNothingOpen ==
    (joined /\ cpc \in {"fclose", "done"} /\ thr = "cancelled") =>
        \A i \in 1..Len(stack) :
            stack[i].owns => files[stack[i].file].closes > 0

C5_OutcomeFalseOnErrorOrCancel ==
    /\ (api = "loop" /\ Returned /\ hist.entered /\ state = "SCRIPT_ERROR")
          => ret = BOOL_FALSE
    /\ (api = "wait" /\ Returned /\ (thr = "cancelled" \/ state = "SCRIPT_ERROR"))
          => ret = BOOL_FALSE

\* C6: with the worker created and no cancellation requested,
\* clish_shell_spawn_and_wait returns the value clish_shell_loop returns:
\* whatever the input, both return the value of _loop.
C6_SpawnAndWaitSameAsLoop ==
    /\ (api = "loop" /\ Returned) => ret = loop_return
    /\ (api = "spawn_and_wait" /\ Returned /\ created /\ ~cancelReq)
          => ret = loop_return

C6_Witness ==
    /\ api = "spawn_and_wait" /\ Returned /\ created /\ ~cancelReq
    /\ state = "SCRIPT_ERROR"
    /\ stack = <<>>
    /\ ret = BOOL_TRUE

\* C7: the stack is non-empty at every read; a pop that empties the stack
\* returns false and ends the loop, any other pop returns true, the loop
\* goes on, and the entry underneath is the active source of the next read.
C7_StackEmptyExactlyAtEnd ==
    \A c \in Ctx :
        /\ pc[c] \in {"tc1", "read", "dispatch", "unwind"} =>
              stack # <<>> /\ istream = Top(stack).file
        /\ (pc[c] \in {"tc2", "top"} /\ hist.lastPop.valid) =>
              /\ hist.lastPop.res = (stack # <<>>)
              /\ running[c] = hist.lastPop.res
        /\ (pc[c] = "read" /\ hist.lastPop.valid) =>
              /\ hist.lastPop.res
              /\ Top(stack).file = hist.lastPop.below
        /\ (pc[c] = "ret" /\ hist.entered) =>
              /\ stack = <<>>
              /\ hist.lastPop.valid /\ ~hist.lastPop.res

C7_Witness ==
    \E c \in Ctx :
        /\ pc[c] = "read"
        /\ hist.lastPop.valid /\ hist.lastPop.res
        /\ Len(stack) >= 1
        /\ Top(stack).file = hist.lastPop.below

\* C8: the descriptor of the file _from_file opened is released on every
\* exit path, and released once.
C8_FromFileReleasedOnce ==
    (api \in {"from_file", "spawn_from_file"} /\ Returned /\ ffile # 0) =>
        fds[FdOf(ffile)].closes = 1

\* C9: after any activation the stream the caller supplied and its
\* descriptor are still open.
C9_CallerStreamStaysOpen ==
    (Returned /\ hist.entered) =>
        /\ files[1].closes = 0
        /\ fds[1].closes = 0

\* C10: when pthread_create fails, clish_shell_spawn reports an error, and
\* clish_shell_spawn_and_wait reports it too, without joining, instead of
\* returning a true/false run outcome.
C10_SpawnFailureReported ==
    hist.createFailed =>
        /\ (api = "spawn" /\ Returned) => ret \notin {BOOL_TRUE, BOOL_FALSE}
        /\ api = "spawn_and_wait" =>
              /\ ~joined
              /\ Returned => ret \notin {BOOL_TRUE, BOOL_FALSE}

\* C11: when _from_file cannot open the file it returns failure and leaves
\* the session as it was: tinyrl's input stream, the stack, the state, the
\* FILE objects and descriptors are unchanged and no worker is created.
C11_OpenFailureTouchesNothing ==
    [][(api = "none" /\ api' \in {"from_file", "spawn_from_file"} /\ ffile' = 0)
          => /\ ret' = BOOL_FALSE
             /\ cpc' = "done"
             /\ UNCHANGED <<state, stack, istream, files, fds, pc, running,
                            thr, created, joined, hist>>]_vars

C11_Witness ==
    /\ api \in {"from_file", "spawn_from_file"}
    /\ Returned /\ ffile = 0
    /\ ret = BOOL_FALSE
    /\ stack = <<>> /\ istream = 1 /\ thr = "none"

\* C12: the output of clish_shell_tilde_expand is the path with every '~'
\* replaced by the home directory and every other character kept, in order;
\* no '~' is left.
RECURSIVE ReplaceTokens(_, _)
ReplaceTokens(path, h) ==
    IF path = <<>> THEN <<>>
    ELSE (IF Head(path) = "~" THEN h ELSE <<Head(path)>>)
         \o ReplaceTokens(Tail(path), h)

C12_EveryTildeReplaced ==
    ld.lpc # "start" =>
        /\ ld.buffer = ReplaceTokens(IF ld.env.set THEN ld.env.val
                                     ELSE default_path, ld.home)
        /\ \A i \in 1..Len(ld.buffer) : ld.buffer[i] # "~"

\* C17: a directory that cannot be opened and a file whose load fails do not
\* stop the scan: the directories of the path are visited in path order, all
\* of them by the end, and every entry read whose name ends in ".xml" is
\* handed to the loader.
RECURSIVE SplitDirs(_, _)
SplitDirs(s, cur) ==
    IF s = <<>> THEN (IF cur = <<>> THEN <<>> ELSE <<cur>>)
    ELSE IF Head(s) = ";"
         THEN (IF cur = <<>> THEN <<>> ELSE <<cur>>) \o SplitDirs(Tail(s), <<>>)
         ELSE SplitDirs(Tail(s), Append(cur, Head(s)))
EndsInXml(name) ==
    Len(name) >= 4 /\ SubSeq(name, Len(name) - 3, Len(name)) = XmlExt

C17_ScanNeverStops ==
    LET dirs == SplitDirs(ld.buffer, <<>>)
    IN  /\ Len(ld.visited) <= Len(dirs)
        /\ \A i \in 1..Len(ld.visited) : ld.visited[i].dir = dirs[i]
        /\ ld.lpc = "done" => Len(ld.visited) = Len(dirs)
        /\ ld.lpc \in {"scan", "dir"} =>
              (Len(ld.visited) < Len(dirs) \/ ld.lpc = "dir"
               \/ strtok_token(ld.rest) = <<>>)
        /\ \A i \in 1..Len(ld.seen) :
              EndsInXml(ld.seen[i].name) =>
                  \E j \in 1..Len(ld.loaded) :
                      ld.loaded[j].file =
                          ld.seen[i].dir \o <<"/">> \o ld.seen[i].name

C17_Witness ==
    /\ ld.lpc = "done"
    /\ Len(ld.visited) = 2
    /\ ~ld.visited[1].ok /\ ld.visited[2].ok
    /\ Len(ld.loaded) = 1 /\ ~ld.loaded[1].ok

\* C18: an entry is handed to the loader iff its name ends in ".xml"
\* (case-sensitive), and the path handed over is directory + "/" + name.
RECURSIVE XmlFilesOf(_)
XmlFilesOf(seen) ==
    IF seen = <<>> THEN <<>>
    ELSE (IF EndsInXml(Head(seen).name)
          THEN <<Head(seen).dir \o <<"/">> \o Head(seen).name>>
          ELSE <<>>) \o XmlFilesOf(Tail(seen))

C18_LoadedIffXml ==
    LET want == XmlFilesOf(ld.seen)
    IN  /\ Len(ld.loaded) = Len(want)
        /\ \A i \in 1..Len(want) : ld.loaded[i].file = want[i]

C18_Witness ==
    /\ ld.lpc = "done"
    /\ Len(ld.loaded) = 1
    /\ \E i \in 1..Len(ld.seen) :
          ld.seen[i].name = <<"a", ".", "x", "m", "l", ".", "b">>
    /\ \E i \in 1..Len(ld.seen) :
          ld.seen[i].name = <<"a", ".", "b", ".", "x", "m", "l">>

\* C13: a dispatch failure in a scripted source that sits directly on an
\* interactive source pops exactly that script: nothing is dispatched between
\* the failure and the pop, the loop goes on (the pop reports a source
\* underneath), the state is READY again when the next line is read, and that
\* line is read from the interactive source, which is still open and on top
\* of the stack.
ScriptOnTty ==
    /\ hist.fail.active /\ ~hist.fail.tty
    /\ hist.fail.expect = 1
    /\ Len(stack) + hist.fail.pops >= 2
BackOnTty ==
    /\ hist.fail.pops = 1
    /\ stack # <<>> /\ istream = Top(stack).file
    /\ get_isatty
    /\ files[istream].closes = 0
    /\ hist.lastPop.valid /\ hist.lastPop.res /\ hist.lastPop.below = istream

C13_ScriptFailureResumesTty ==
    ScriptOnTty =>
        /\ hist.fail.pops <= 1
        /\ \A c \in Ctx :
              /\ pc[c] \notin {"dispatch", "ret"}
              /\ pc[c] = "unwind" =>
                    hist.fail.pops = 0 /\ state = "SCRIPT_ERROR"
              /\ pc[c] \in {"tc2", "top"} => BackOnTty /\ running[c]
              /\ pc[c] = "read" => BackOnTty /\ state = "READY"

C13_Witness ==
    /\ ScriptOnTty /\ BackOnTty
    /\ state = "READY"
    /\ \E c \in Ctx : pc[c] = "read"
    /\ \E d \in 1..Len(fds) :
          ~fds[d].tty /\ fds[d].closes = 1 /\ fds[d].left > 0

\* C14: a line is only ever taken from the source on top of the stack, one
\* line at a time, and a source leaves the stack only at its end of stream
\* or on a script error: a source under the top is not read before the
\* sources above it are gone.
C14_DepthFirst ==
    [][/\ \A d \in 1..Len(fds) :
             fds'[d].left # fds[d].left =>
                 /\ stack # <<>>
                 /\ d = FdOf(Top(stack).file)
                 /\ istream = Top(stack).file
                 /\ fds'[d].left = fds[d].left - 1
                 /\ stack' = stack
       /\ Len(stack') < Len(stack) =>
             /\ stack' = Pop(stack)
             /\ \/ fds[FdOf(Top(stack).file)].left = 0
                \/ state = "SCRIPT_ERROR"]_vars

C14_Witness ==
    /\ \E c \in Ctx : pc[c] = "dispatch"
    /\ Len(stack) = 1 /\ includes >= 1
    /\ state = "READY"
    /\ \E d \in 2..Len(fds) : fds[d].closes = 1 /\ fds[d].left = 0

\* C19: no line is read or dispatched while the state is SCRIPT_ERROR; the
\* state leaves SCRIPT_ERROR only for READY and only when the active source
\* is a terminal; and after a failure on a stack with no interactive source
\* nothing more is read, every pop removes one source, and the activation
\* returns with the stack empty.
AllScriptedFailure ==
    /\ hist.fail.active /\ ~hist.fail.tty
    /\ hist.fail.expect = Len(stack) + hist.fail.pops

C19_ErrorSuppressesReads ==
    /\ [](\A c \in Ctx :
            /\ pc[c] = "read" => state # "SCRIPT_ERROR"
            /\ AllScriptedFailure =>
                  /\ pc[c] \notin {"read", "dispatch"}
                  /\ state = "SCRIPT_ERROR"
                  /\ pc[c] = "ret" => stack = <<>>)
    /\ [][/\ (state = "SCRIPT_ERROR" /\ state' # state) =>
                (state' = "READY" /\ get_isatty)
          /\ (\E d \in 1..Len(fds) : fds'[d].left # fds[d].left) =>
                state = "READY"
          /\ (AllScriptedFailure /\ stack' # stack) =>
                /\ stack' = Pop(stack)
                /\ hist'.fail.pops = hist.fail.pops + 1
                /\ \E c \in Ctx : pc[c] = "unwind" /\ pc'[c] = "tc2"]_vars

C19_Witness ==
    /\ AllScriptedFailure
    /\ hist.fail.expect >= 2
    /\ stack = <<>>
    /\ state = "SCRIPT_ERROR"
    /\ \E c \in Ctx : pc[c] = "ret"

\* C16: while the state is CLOSING no step changes the state, the stack or
\* the lines left in any source, no new FILE is made for the stack, and an
\* activation that enters _loop goes straight to its return; this holds for
\* every one of the repeated calls.
C16_ClosingIsNoOp ==
    [][state = "CLOSING" =>
          /\ state' = "CLOSING"
          /\ stack' = stack /\ stack = <<>>
          /\ \A d \in 1..Len(fds) : fds'[d].left = fds[d].left
          /\ \A c \in Ctx :
                /\ pc'[c] \notin {"tc1", "top", "read", "dispatch",
                                  "unwind", "tc2"}
                /\ pc[c] = "entry" =>
                      (pc'[c] = "ret" \/ UNCHANGED <<pc, istream, files>>)
          /\ (cpc' = "done" /\ api' \in {"loop"}) => ret' = BOOL_TRUE]_vars

C16_Witness ==
    /\ state = "CLOSING"
    /\ hist.calls = MaxCalls
    /\ api = "loop" /\ Returned /\ ret = BOOL_TRUE
    /\ stack = <<>> /\ ~hist.entered
    /\ \A d \in 1..Len(fds) : fds[d].closes = 0

\* C15 (as stated): whatever the order of the calls, at most one execution
\* context is inside _loop.
InLoop(c) == pc[c] \in LoopPcs \ {"ret"}
C15_AtMostOneInLoop ==
    ~(InLoop("caller") /\ InLoop("worker"))

\* C15 (amended): as long as no entry point has been called between a
\* successful clish_shell_spawn and the clish_shell_wait for its thread, at
\* most one execution context is inside _loop, and the caller is inside an
\* entry point that does not return before the thread has ended.
C15_OneAtATimeWhenJoinedFirst ==
    ~hist.overlap =>
        /\ ~(pc["caller"] \in LoopPcs /\ pc["worker"] \in LoopPcs \cup {"start"})
        /\ (pc["worker"] \in LoopPcs \cup {"start"}) =>
              cpc \in {"spawned", "in_join"}

C15_Witness ==
    /\ ~hist.overlap
    /\ api = "spawn_from_file"
    /\ pc["worker"] = "dispatch"
    /\ pc["caller"] = "idle"
    /\ cpc = "in_join"

\* C20: with finitely many lines and finitely many pushed sources, an
\* activation of _loop that starts in a state other than CLOSING reaches its
\* return with the stack empty unless its thread is cancelled; and a loop
\* iteration that pops nothing has read a line.
C20_ActivationTerminates ==
    /\ (pc["caller"] = "entry" /\ state # "CLOSING")
          ~> (pc["caller"] = "ret" /\ stack = <<>>)
    /\ (pc["worker"] = "entry" /\ state # "CLOSING")
          ~> ((pc["worker"] = "ret" /\ stack = <<>>) \/ thr = "cancelled")
    /\ [][\A c \in Ctx :
             (pc[c] = "unwind" /\ pc'[c] = "tc2" /\ stack' = stack) =>
                 /\ running[c] /\ state # "SCRIPT_ERROR"
                 /\ hist.fail = NoFail /\ hist.lastPop = NoPop]_vars

C20_Witness ==
    /\ \E c \in Ctx : pc[c] = "ret"
    /\ stack = <<>>
    /\ hist.entered /\ includes = MaxIncludes
    /\ \A d \in 1..Len(fds) : fds[d].left = 0
    /\ \E d \in 1..Len(fds) : fds[d].closes >= 1
====
